---- MODULE Spec2Model ----
(***************************************************************************)
(* Two-phase transfer-learning pipeline of Bean-Disease-Classification:    *)
(* the stratified index split of BeanDataLoader.load_data, the trainable   *)
(* flags managed by BeanModelBuilder, and the step sequence of             *)
(* trainer.train_model.                                                    *)
(***************************************************************************)
EXTENDS Integers, Sequences, FiniteSets, TLC

(* ------------------------------ bounds -------------------------------- *)

\* Most examples of one class in a modelled dataset.
MaxPerClass == 4
\* Largest train_size of a modelled configuration.
MaxSplit == 4
\* Largest val_size / test_size of a modelled configuration.
MaxHoldout == 3
\* Seeds 0..MaxSeed are modelled.
MaxSeed == 1
\* Epoch counts 0..MaxEpochs are modelled.
MaxEpochs == 3
\* Calls of load_data modelled for the data loader alone.
MaxLoads == 2
\* Modulus of the modelled pseudo-random generator.
RngMod == 16
\* Largest backbone layer count modelled for the model builder alone.
MaxLayers == 228
\* Calls of prepare_for_finetuning modelled for the model builder alone.
MaxPrepCalls == 3
\* Calls of train_model modelled in one process.
MaxCalls == 2
\* Examples of a class in the smallest dataset modelled by its label counts,
\* and by how many the class sizes next to it exceed it.
MinPerClass == 100
MaxExtra == 1

(* --------------------------- configuration ---------------------------- *)

DatasetSource == {"HUGGING_FACE", "TENSORFLOW", "KAGGLE"}
BaseModel == {"XCEPTION", "EFFICIENT_NET_V2", "MOBILE_NET"}
Optimizer == {"SGD", "ADAM", "NADAM"}

\* Labels of the three classes (class_names has three entries).
Classes == {0, 1, 2}

(* ------------------------- sequence helpers --------------------------- *)

RECURSIVE SumSeq(_)
SumSeq(s) == IF s = <<>> THEN 0 ELSE Head(s) + SumSeq(Tail(s))

RECURSIVE MinSeq(_)
MinSeq(s) ==
    IF Len(s) = 1 THEN s[1]
    ELSE LET m == MinSeq(Tail(s)) IN IF s[1] < m THEN s[1] ELSE m

Range(s) == {s[i] : i \in DOMAIN s}

RemoveAt(s, k) == SubSeq(s, 1, k - 1) \o SubSeq(s, k + 1, Len(s))

Take(s, n) == SubSeq(s, 1, n)

\* a[idx] of numpy: the elements of a at the positions idx, in idx's order.
TakeAt(a, idx) == [k \in 1..Len(idx) |-> a[idx[k]]]

\* The members of a set of integers in ascending order.
RECURSIVE Ascending(_)
Ascending(S) ==
    IF S = {} THEN <<>>
    ELSE LET m == CHOOSE x \in S : \A y \in S : x <= y
         IN <<m>> \o Ascending(S \ {m})

\* The members of a set of integers in descending order.
RECURSIVE Descending(_)
Descending(S) ==
    IF S = {} THEN <<>>
    ELSE LET m == CHOOSE x \in S : \A y \in S : x >= y
         IN <<m>> \o Descending(S \ {m})

(* ---------------------- pseudo-random generator ----------------------- *)

\* np.random.RandomState(seed): the generator's state is fixed by the seed.
RandomState(seed) == seed % RngMod

\* One draw advances the state.
RngNext(r) == (5 * r + 3) % RngMod

\* rng.permutation(s): a shuffle that consumes the generator.
RECURSIVE Permutation(_, _)
Permutation(s, r) ==
    IF Len(s) = 0 THEN [out |-> s, rng |-> r]
    ELSE LET r1 == RngNext(r)
             k == (r1 % Len(s)) + 1
             rest == Permutation(RemoveAt(s, k), r1)
         IN [out |-> <<s[k]>> \o rest.out, rng |-> rest.rng]

\* Variant: the seed is ignored and the process-wide generator is used.
CheckRandomStateGlobal(random_state, g) == g

\* check_random_state(random_state): an int seeds a new generator; the
\* process-wide generator g plays no part.
CheckRandomState(random_state, g) == RandomState(random_state)

(* ----------------- sklearn.model_selection.train_test_split ----------- *)

\* _approximate_mode's loop over the distinct remainders, largest first:
\* the classes sharing a remainder get one more draw each, chosen by
\* rng.choice(inds, size=add_now, replace=False) when they exceed the need.
RECURSIVE AddByRemainder(_, _, _, _, _)
AddByRemainder(floored, rem, values, need, r) ==
    IF need = 0 \/ values = <<>> THEN [out |-> floored, rng |-> r]
    ELSE LET inds == Ascending({i \in DOMAIN rem : rem[i] = Head(values)})
             add_now == IF Len(inds) < need THEN Len(inds) ELSE need
             p == Permutation(inds, r)
             chosen == Range(Take(p.out, add_now))
             bumped == [i \in DOMAIN floored |->
                          IF i \in chosen THEN floored[i] + 1 ELSE floored[i]]
         IN AddByRemainder(bumped, rem, Tail(values), need - add_now, p.rng)

\* _approximate_mode(class_counts, n_draws, rng): the per-class share of
\* n_draws, rounded so that the shares sum to n_draws.  The fractions are
\* kept exact: remainders are numerators over the common total.
ApproximateMode(class_counts, n_draws, r) ==
    LET total == SumSeq(class_counts)
        floored == [i \in DOMAIN class_counts |-> (class_counts[i] * n_draws) \div total]
        rem == [i \in DOMAIN class_counts |-> (class_counts[i] * n_draws) % total]
        need == n_draws - SumSeq(floored)
    IN AddByRemainder(floored, rem, Descending(Range(rem)), need, r)

\* np.unique(y): the labels present, ascending.
UniqueLabels(y) == Ascending(Range(y))

\* class_indices: per present class, the positions of y holding it, ascending.
ClassIndices(y) ==
    LET classes == UniqueLabels(y)
    IN [c \in DOMAIN classes |-> Ascending({k \in DOMAIN y : y[k] = classes[c]})]

\* The per-class loop of StratifiedShuffleSplit._iter_indices: permute the
\* class's positions, the first n_i[c] go to train, the next t_i[c] to test.
RECURSIVE PerClass(_, _, _, _, _, _, _)
PerClass(class_indices, n_i, t_i, c, train, test, r) ==
    IF c > Len(class_indices) THEN [train |-> train, test |-> test, rng |-> r]
    ELSE LET p == Permutation(class_indices[c], r)
         IN PerClass(class_indices, n_i, t_i, c + 1,
                     train \o SubSeq(p.out, 1, n_i[c]),
                     test \o SubSeq(p.out, n_i[c] + 1, n_i[c] + t_i[c]),
                     p.rng)

ValueError == [ok |-> FALSE, error |-> "ValueError", train |-> <<>>, test |-> <<>>]

\* train_test_split(arr, train_size=train_size, random_state=random_state,
\* shuffle=True, stratify=y) with test_size left unset: the test part is
\* the complement of the train part.  g is the process-wide generator.
TrainTestSplit(arr, train_size, random_state, y, g) ==
    LET n_samples == Len(arr)
        n_train == train_size
        n_test == n_samples - n_train
        class_indices == ClassIndices(y)
        n_classes == Len(class_indices)
        class_counts == [c \in DOMAIN class_indices |-> Len(class_indices[c])]
    IN IF train_size >= n_samples \/ train_size <= 0 THEN ValueError
       ELSE IF MinSeq(class_counts) < 2 THEN ValueError
       ELSE IF n_train < n_classes THEN ValueError
       ELSE IF n_test < n_classes THEN ValueError
       ELSE LET rng == CheckRandomState(random_state, g)
                n_i == ApproximateMode(class_counts, n_train, rng)
                remaining == [c \in DOMAIN class_counts |-> class_counts[c] - n_i.out[c]]
                t_i == ApproximateMode(remaining, n_test, n_i.rng)
                parts == PerClass(class_indices, n_i.out, t_i.out, 1, <<>>, <<>>, t_i.rng)
                train == Permutation(parts.train, parts.rng)
                test == Permutation(parts.test, train.rng)
            IN [ok |-> TRUE, error |-> "none",
                train |-> TakeAt(arr, train.out), test |-> TakeAt(arr, test.out)]

(* ------------------------ BeanDataLoader.load_data --------------------- *)

NoSplit == [ok |-> FALSE, error |-> "none", train |-> <<>>, val |-> <<>>, test |-> <<>>]

LoadError(kind) == [ok |-> FALSE, error |-> kind, train |-> <<>>, val |-> <<>>, test |-> <<>>]

\* np.arange(n)
Arange(n) == [k \in 1..n |-> k - 1]

\* labels_array[idx] for 0-based index values.
LabelsAt(labels_array, idx) == [k \in 1..Len(idx) |-> labels_array[idx[k] + 1]]

\* Variant: the first split is sized by val_size.
FirstSplitByValSize(cfg, labels_array, g) ==
    TrainTestSplit(Arange(Len(labels_array)), cfg.val_size, cfg.random_seed,
                   labels_array, g)

\* The first split: all indices into train_idx and temp_idx.
FirstSplit(cfg, labels_array, g) ==
    TrainTestSplit(Arange(Len(labels_array)), cfg.train_size, cfg.random_seed,
                   labels_array, g)

\* Variant: the second split is drawn from all indices, not from temp_idx.
SecondSplitOfAll(cfg, labels_array, temp_idx, g) ==
    TrainTestSplit(Arange(Len(labels_array)), cfg.val_size, cfg.random_seed,
                   labels_array, g)

\* The second split: temp_idx into val_idx and test_idx.
SecondSplit(cfg, labels_array, temp_idx, g) ==
    TrainTestSplit(temp_idx, cfg.val_size, cfg.random_seed,
                   LabelsAt(labels_array, temp_idx), g)

\* load_data: only TENSORFLOW and HUGGING_FACE bind images_list; the sizes
\* read from the configuration are train_size and val_size.
LoadData(cfg, labels_array, g) ==
    IF cfg.dataset_source \notin {"TENSORFLOW", "HUGGING_FACE"}
    THEN LoadError("UnboundLocalError")
    ELSE LET first == FirstSplit(cfg, labels_array, g)
         IN IF ~first.ok THEN LoadError(first.error)
            ELSE LET second == SecondSplit(cfg, labels_array, first.test, g)
                 IN IF ~second.ok THEN LoadError(second.error)
                    ELSE [ok |-> TRUE, error |-> "none", train |-> first.train,
                          val |-> second.train, test |-> second.test]

\* collections.Counter(labels): per class, how many entries of y hold it
\* (0 for a class Counter has no key for).
Counter(y) == [c \in Classes |-> Cardinality({k \in DOMAIN y : y[k] = c})]

NoCounts ==
    [ok |-> FALSE, error |-> "none", train |-> [c \in Classes |-> 0],
     val |-> [c \in Classes |-> 0], test |-> [c \in Classes |-> 0]]

\* The label counts lines 124-130 compute from the three index lists.
CountSplits(labels_array, s) ==
    [ok |-> s.ok, error |-> s.error,
     train |-> Counter(LabelsAt(labels_array, s.train)),
     val |-> Counter(LabelsAt(labels_array, s.val)),
     test |-> Counter(LabelsAt(labels_array, s.test))]

CountError == [ok |-> FALSE, error |-> "ValueError",
               train |-> [c \in Classes |-> 0], test |-> [c \in Classes |-> 0]]

\* Variant: no stratify argument; the train part is cut from the examples
\* as they come, here class after class.
UnstratifiedCounts(counts, train_size, random_state, g) ==
    LET Below(c) == SumSeq([i \in 1..c |-> counts[i - 1]])
        Cut(c) == IF train_size - Below(c) <= 0 THEN 0
                  ELSE IF train_size - Below(c) < counts[c]
                  THEN train_size - Below(c) ELSE counts[c]
    IN IF train_size >= Below(Cardinality(Classes)) \/ train_size <= 0
       THEN CountError
       ELSE [ok |-> TRUE, error |-> "none",
             train |-> [c \in Classes |-> Cut(c)],
             test |-> [c \in Classes |-> counts[c] - Cut(c)]]

\* The label counts of the two parts train_test_split(..., train_size,
\* random_state, shuffle=True, stratify=y) returns, from the label counts
\* of y: the checks and the two _approximate_mode calls of TrainTestSplit,
\* without the index lists.
StratifiedCounts(counts, train_size, random_state, g) ==
    LET classes == Ascending({c \in Classes : counts[c] > 0})
        class_counts == [i \in DOMAIN classes |-> counts[classes[i]]]
        n_samples == SumSeq(class_counts)
        n_train == train_size
        n_test == n_samples - n_train
        n_classes == Len(classes)
        PlaceOf(c) == CHOOSE i \in DOMAIN classes : classes[i] = c
    IN IF train_size >= n_samples \/ train_size <= 0 THEN CountError
       ELSE IF MinSeq(class_counts) < 2 THEN CountError
       ELSE IF n_train < n_classes THEN CountError
       ELSE IF n_test < n_classes THEN CountError
       ELSE LET rng == CheckRandomState(random_state, g)
                n_i == ApproximateMode(class_counts, n_train, rng)
                remaining == [i \in DOMAIN class_counts |-> class_counts[i] - n_i.out[i]]
                t_i == ApproximateMode(remaining, n_test, n_i.rng)
            IN [ok |-> TRUE, error |-> "none",
                train |-> [c \in Classes |->
                             IF counts[c] > 0 THEN n_i.out[PlaceOf(c)] ELSE 0],
                test |-> [c \in Classes |->
                            IF counts[c] > 0 THEN t_i.out[PlaceOf(c)] ELSE 0]]

\* load_data followed through its label counts only: the counts of
\* labels_array[train_idx], labels_array[val_idx], labels_array[test_idx].
LoadCounts(cfg, counts, g) ==
    IF cfg.dataset_source \notin {"TENSORFLOW", "HUGGING_FACE"}
    THEN [NoCounts EXCEPT !.error = "UnboundLocalError"]
    ELSE LET first == StratifiedCounts(counts, cfg.train_size, cfg.random_seed, g)
         IN IF ~first.ok THEN [NoCounts EXCEPT !.error = first.error]
            ELSE LET second == StratifiedCounts(first.test, cfg.val_size,
                                                cfg.random_seed, g)
                 IN IF ~second.ok THEN [NoCounts EXCEPT !.error = second.error]
                    ELSE [ok |-> TRUE, error |-> "none", train |-> first.train,
                          val |-> second.train, test |-> second.test]

(* --------------------------- BeanModelBuilder -------------------------- *)

\* Layers[56:] become trainable (preprocessing outside the model).
UnfreezeFrom == 56
\* Layers[:-226] are frozen again (preprocessing inside the model).
FreezeAllBut == 226

NoModel == [built |-> FALSE, base_trainable |-> TRUE, layers |-> <<>>, head |-> <<>>]

\* Variant: with preprocessing inside the model the backbone is left as
\* constructed, trainable.
BuildModelPartlyFrozen(cfg, n) ==
    [built |-> TRUE,
     base_trainable |-> TRUE,
     layers |-> [i \in 1..n |-> cfg.preprocess_in_model],
     head |-> <<TRUE, TRUE, TRUE>>]

\* build_model: the backbone's n layers and the head (pooling, dropout,
\* dense) are created trainable; then base_model.trainable = False, which
\* Keras passes on to every layer of base_model, or each layer is frozen in
\* the loop.
BuildModel(cfg, n) ==
    [built |-> TRUE,
     base_trainable |-> ~cfg.preprocess_in_model,
     layers |-> [i \in 1..n |-> FALSE],
     head |-> <<TRUE, TRUE, TRUE>>]

\* Variant: the flags of the selected layers are flipped instead of set.
PrepareForFinetuningFlip(cfg, m) ==
    LET n == Len(m.layers)
    IN IF cfg.preprocess_in_model
       THEN [m EXCEPT !.base_trainable = TRUE,
                      !.layers = [i \in 1..n |->
                                    IF cfg.base_model = "XCEPTION" /\ i <= n - FreezeAllBut
                                    THEN ~m.layers[i] ELSE TRUE]]
       ELSE [m EXCEPT !.layers = [i \in 1..n |->
                                    IF cfg.base_model = "XCEPTION" /\ i > UnfreezeFrom
                                    THEN ~m.layers[i] ELSE m.layers[i]]]

\* Variant: the loops run over the whole model, and the head is frozen with
\* the layers that are not unfrozen.
PrepareForFinetuningHead(cfg, m) ==
    LET n == Len(m.layers)
    IN IF cfg.preprocess_in_model
       THEN [m EXCEPT !.base_trainable = TRUE,
                      !.layers = [i \in 1..n |->
                                    IF cfg.base_model = "XCEPTION" /\ i <= n - FreezeAllBut
                                    THEN FALSE ELSE TRUE],
                      !.head = [h \in DOMAIN m.head |-> FALSE]]
       ELSE [m EXCEPT !.layers = [i \in 1..n |->
                                    IF cfg.base_model = "XCEPTION" /\ i > UnfreezeFrom
                                    THEN TRUE ELSE m.layers[i]],
                      !.head = [h \in DOMAIN m.head |-> FALSE]]

\* prepare_for_finetuning(model, base_model); layer i of the list is
\* base_model.layers[i - 1].
PrepareForFinetuning(cfg, m) ==
    LET n == Len(m.layers)
    IN IF cfg.preprocess_in_model
       THEN [m EXCEPT !.base_trainable = TRUE,
                      !.layers = [i \in 1..n |->
                                    IF cfg.base_model = "XCEPTION" /\ i <= n - FreezeAllBut
                                    THEN FALSE ELSE TRUE]]
       ELSE [m EXCEPT !.layers = [i \in 1..n |->
                                    IF cfg.base_model = "XCEPTION" /\ i > UnfreezeFrom
                                    THEN TRUE ELSE m.layers[i]]]

\* The backbone layers whose weights a fit updates.
TrainableBackbone(cfg, m) ==
    {i \in DOMAIN m.layers :
        m.layers[i] /\ (cfg.preprocess_in_model => m.base_trainable)}

(* ------------------- tf.keras: Model.fit, EarlyStopping ---------------- *)

\* The logs of one epoch, as History records them: two possible epochs.
EpochLogs ==
    {[accuracy |-> 1, val_accuracy |-> 2, loss |-> 2, val_loss |-> 1],
     [accuracy |-> 2, val_accuracy |-> 1, loss |-> 1, val_loss |-> 2]}

\* EarlyStopping.best before any epoch (np.inf for mode "min"): above every
\* val_loss of EpochLogs.
NoBest == 3

\* The weights as build_model leaves them, and as epoch k of the f-th fit
\* leaves them.
InitialWeights == [fit |-> 0, epoch |-> 0]
WeightsAfter(f, k) == [fit |-> f, epoch |-> k]

NoCallbacks == <<>>

\* Variant: the early-stopping object of the previous phase is handed out
\* again, as it stands.
GetCallbacksReused(cfg, id, previous) ==
    IF previous = <<>>
    THEN <<[id |-> id, patience |-> cfg.patience, wait |-> 0, best |-> NoBest,
            best_weights |-> InitialWeights]>>
    ELSE previous

\* get_callbacks(config, phase): a list holding one new EarlyStopping on
\* val_loss with the configured patience; id tells the objects apart.
GetCallbacks(cfg, id, previous) ==
    <<[id |-> id, patience |-> cfg.patience, wait |-> 0, best |-> NoBest,
       best_weights |-> InitialWeights]>>

\* The epoch loop of Model.fit with EarlyStopping.on_epoch_end: plan[k] is
\* what epoch k yields if it runs, f the number of this fit, done the epochs
\* run so far.  The epoch's logs join the history; an improvement of
\* val_loss is remembered and resets wait, anything else counts towards
\* patience, and from the second epoch on wait >= patience stops the fit
\* and restores the best weights.
RECURSIVE FitLoop(_, _, _, _, _, _)
FitLoop(plan, f, done, history, es, weights) ==
    IF done = Len(plan)
    THEN [history |-> history, es |-> es, weights |-> weights]
    ELSE LET logs == plan[done + 1]
             trained == WeightsAfter(f, done + 1)
             seen == Append(history, logs)
         IN IF logs.val_loss < es.best
            THEN FitLoop(plan, f, done + 1, seen,
                         [es EXCEPT !.wait = 0, !.best = logs.val_loss,
                                    !.best_weights = trained],
                         trained)
            ELSE IF es.wait + 1 >= es.patience /\ done > 0
            THEN [history |-> seen, es |-> [es EXCEPT !.wait = @ + 1],
                  weights |-> es.best_weights]
            ELSE FitLoop(plan, f, done + 1, seen,
                         [es EXCEPT !.wait = @ + 1], trained)

\* model.fit(ds_train, validation_data=ds_valid, epochs=epochs,
\* callbacks=callbacks): on_train_begin resets the callback's wait and best,
\* then the epochs run.  With epochs <= 0 no epoch runs and the history
\* stays empty.
Fit(plan, f, callbacks, weights) ==
    FitLoop(plan, f, 0, <<>>,
            [callbacks[1] EXCEPT !.wait = 0, !.best = NoBest,
                                 !.best_weights = weights],
            weights)

\* What the epochs of a fit may yield, one entry per epoch asked for.
Plans(epochs) == [1..(IF epochs > 0 THEN epochs ELSE 0) -> EpochLogs]

(* ---------------------- tf.data and the pipelines ---------------------- *)

\* tf.data.AUTOTUNE, and the argument of an operation that takes none.
Autotune == -1
NoArg == 0

\* A tf.data.Dataset: the indices its generator walks, then the operations
\* applied to what the generator yields, in order of application.
NoDataset == [source |-> <<>>, ops |-> <<>>]

\* tf.data.Dataset.from_generator(make_generator(indices), ...)
FromGenerator(indices) == [source |-> indices, ops |-> <<>>]

\* ds.map, ds.cache, ds.shuffle, ds.batch, ds.prefetch: a dataset that
\* applies one more operation.
Apply(ds, op, arg) == [ds EXCEPT !.ops = Append(@, [op |-> op, arg |-> arg])]

\* The preprocessing map of lines 145-155, applied when preprocessing is
\* not part of the model.
MapPreprocess(ds, cfg) ==
    IF ~cfg.preprocess_in_model THEN Apply(ds, "map_preprocess", Autotune) ELSE ds

\* Lines 158-165: the training pipeline.
TrainPipeline(ds, cfg) ==
    LET cached == Apply(MapPreprocess(ds, cfg), "cache", NoArg)
        shuffled == Apply(cached, "shuffle", cfg.train_size)
        augmented == IF ~cfg.preprocess_in_model
                     THEN Apply(shuffled, "map_augmentation", Autotune)
                     ELSE shuffled
    IN Apply(Apply(augmented, "batch", cfg.batch_size), "prefetch", Autotune)

\* Variant: the validation and test pipelines are shuffled like the
\* training pipeline.
EvalPipelineShuffled(ds, cfg) ==
    LET cached == Apply(MapPreprocess(ds, cfg), "cache", NoArg)
        shuffled == Apply(cached, "shuffle", cfg.train_size)
    IN Apply(Apply(shuffled, "batch", cfg.batch_size), "prefetch", Autotune)

\* Lines 168-175: the validation pipeline and the test pipeline.
EvalPipeline(ds, cfg) ==
    LET cached == Apply(MapPreprocess(ds, cfg), "cache", NoArg)
    IN Apply(Apply(cached, "batch", cfg.batch_size), "prefetch", Autotune)

\* Dataset.shuffle(buffer_size): the buffer holds the next buffer_size
\* elements; each step yields a random element of the buffer and puts the
\* next element of the input in its place.
RECURSIVE ShuffleFrom(_, _, _)
ShuffleFrom(buffer, rest, r) ==
    IF buffer = <<>> THEN <<>>
    ELSE LET r1 == RngNext(r)
             k == (r1 % Len(buffer)) + 1
         IN IF rest # <<>>
            THEN <<buffer[k]>>
                 \o ShuffleFrom([buffer EXCEPT ![k] = Head(rest)], Tail(rest), r1)
            ELSE <<buffer[k]>> \o ShuffleFrom(RemoveAt(buffer, k), rest, r1)

Shuffle(s, buffer_size, r) ==
    LET n == IF buffer_size < Len(s) THEN buffer_size ELSE Len(s)
    IN ShuffleFrom(Take(s, n), SubSeq(s, n + 1, Len(s)), r)

\* What one operation does to the examples passing through it: the maps
\* mark each example, shuffle reorders, cache, batch and prefetch keep the
\* examples and their order.
ApplyOp(op, examples, r) ==
    IF op.op = "map_preprocess"
    THEN [k \in DOMAIN examples |-> [examples[k] EXCEPT !.preprocessed = TRUE]]
    ELSE IF op.op = "map_augmentation"
    THEN [k \in DOMAIN examples |-> [examples[k] EXCEPT !.augmented = TRUE]]
    ELSE IF op.op = "shuffle"
    THEN Shuffle(examples, op.arg, r)
    ELSE examples

\* The examples one pass over the dataset yields, in order, the shuffle
\* drawing from generator state r.
RECURSIVE Through(_, _, _)
Through(ops, examples, r) ==
    IF ops = <<>> THEN examples
    ELSE Through(Tail(ops), ApplyOp(Head(ops), examples, r), r)

Elements(ds, r) ==
    Through(ds.ops,
            [k \in DOMAIN ds.source |->
                [index |-> ds.source[k], preprocessed |-> FALSE, augmented |-> FALSE]],
            r)

(* -------------------------------- state -------------------------------- *)

VARIABLES
    config,      \* the TrainingConfig of the run, never assigned after Init
    labels,      \* labels_array: the label of every example the source yields
    nLayers,     \* len(base_model.layers) of the backbone Keras constructs
    run,         \* how many calls of load_data there have been
    pc,          \* the statement of train_model about to execute
    steps,       \* the statements executed so far, in order
    error,       \* the exception that ended this call, "none" if none
    splits,      \* train_idx, val_idx, test_idx of this call's load_data
    pastSplits,  \* what the earlier calls of load_data returned
    model,       \* trainable flags of the model's layers
    prepCalls,   \* calls of prepare_for_finetuning on this model
    afterFirst,  \* the flags as the first prepare_for_finetuning left them
    files,       \* the local files written, each with the call that wrote it
    call,        \* the number of this call of train_model, from 1
    artifacts,   \* the tracking server's artifact store: run and path
    sink,        \* calls received by the experiment-tracking sink, this run
    result,      \* the value train_model returned, "none" if none
    globalRng,   \* the process-wide pseudo-random generator
    optimizer,          \* the optimizer the model was last compiled with
    callbacks,          \* the callback list of the last get_callbacks
    history_pretrain,   \* History.history of the phase 1 fit, per epoch
    history_finetune,   \* History.history of the phase 2 fit, per epoch
    weights,            \* the model's weights
    nextId,             \* objects created so far, plus one
    final_accuracy,     \* local of train_model, Unbound until assigned
    final_val_accuracy, \* local of train_model, Unbound until assigned
    evaluation,         \* test_loss, test_accuracy of model.evaluate
    final_metrics,      \* local of train_model
    tflite_model,       \* length of the converted model, Unbound until made
    ds_train,           \* the train dataset: its source and its operations
    ds_valid,           \* the validation dataset
    ds_test,            \* the test dataset
    label_counts,       \* the label counts load_data computes per split
    request,            \* the body of the POST /train request being served
    training_config,    \* local of the /train handler
    api_history,        \* history.history of the /train handler's fit
    response            \* what the /train handler returned, NoResponse if nothing

\* What the fits and compiles of train_model work on.
fitVars == <<optimizer, callbacks, history_pretrain, history_finetune, weights,
             nextId>>

\* What train_model computes after the fits.
outVars == <<final_accuracy, final_val_accuracy, evaluation, final_metrics,
             tflite_model>>

\* The three datasets load_data returns, and its label counts.
dataVars == <<ds_train, ds_valid, ds_test, label_counts>>

\* What the /train handler of api.py works on.
apiVars == <<request, training_config, api_history, response>>

vars == <<config, labels, nLayers, run, pc, steps, error, splits, pastSplits,
          model, prepCalls, afterFirst, files, call, artifacts, sink, result,
          globalRng, fitVars, outVars, dataVars, apiVars>>

(* ------------------------------- inputs -------------------------------- *)

\* A dataset with counts[c] examples of class c, the classes interleaved.
RECURSIVE RoundRobin(_)
RoundRobin(counts) ==
    IF \A c \in Classes : counts[c] = 0 THEN <<>>
    ELSE Ascending({c \in Classes : counts[c] > 0})
         \o RoundRobin([c \in Classes |-> IF counts[c] > 0 THEN counts[c] - 1 ELSE 0])

Datasets == {RoundRobin(counts) : counts \in [Classes -> 0..MaxPerClass]}

\* The dataset and sizes used where the configuration varies elsewhere: the
\* fullest modelled dataset, each split as large as the number of classes.
BaseLabels == RoundRobin([c \in Classes |-> MaxPerClass])
BaseSize == Cardinality(Classes)

\* Layer counts at which each slice of prepare_for_finetuning is non-empty.
LayerCounts == {UnfreezeFrom + 1, FreezeAllBut + 1}

\* A TrainingConfig; the fields not passed have the dataclass's defaults.
\* Learning rates are counted in units of 1e-5, dropout_rate in percent.
MakeConfig(bm, pim, src, tr, va, te, ep, ef, seed) ==
    [base_model |-> bm, optimizer |-> "SGD", preprocess_in_model |-> pim,
     dataset_source |-> src,
     train_size |-> tr, val_size |-> va, test_size |-> te,
     batch_size |-> 16,
     epochs_pretrain |-> ep, epochs_finetune |-> ef,
     initial_lr |-> 10000, finetune_lr |-> 1000,
     dropout_rate |-> 50,
     patience |-> 10,
     random_seed |-> seed,
     experiment_name |-> "bean_disease_classification",
     run_name |-> "training_unknown",
     mlflow_tracking_uri |-> "http://mlflow:5000"]

\* Configurations varying what load_data reads.
LoaderConfigs ==
    {MakeConfig("XCEPTION", FALSE, "TENSORFLOW", tr, va, te, 1, 1, seed) :
        tr \in 1..MaxSplit, va \in 1..MaxHoldout, te \in 1..MaxHoldout,
        seed \in 0..MaxSeed}

\* Configurations varying what the model builder and the orchestrator read:
\* each phase with no epoch or with one.
FlowConfigs ==
    {MakeConfig(bm, pim, src, BaseSize, BaseSize, BaseSize, ep, ef, 0) :
        bm \in BaseModel, pim \in BOOLEAN, src \in DatasetSource,
        ep \in {0, 1}, ef \in {0, 1}}

\* The patience of an early stopping that can end a modelled fit, and the
\* dataclass's default, which cannot.
Patiences == {1, 10}

\* Learning rates in units of 1e-5: the Nadam branch's pretrain constant,
\* and the dataclass's defaults of finetune_lr and initial_lr.
LearningRates == {10, 1000, 10000}

\* Configurations varying what get_optimizer reads.
OptimizerConfigs ==
    {[MakeConfig("XCEPTION", FALSE, "TENSORFLOW", BaseSize, BaseSize, BaseSize,
                 1, 1, 0)
         EXCEPT !.optimizer = opt, !.initial_lr = ilr, !.finetune_lr = flr] :
        opt \in Optimizer, ilr \in LearningRates, flr \in LearningRates}

\* Configurations varying what the fits read.
EpochConfigs ==
    {[MakeConfig("XCEPTION", FALSE, "TENSORFLOW", BaseSize, BaseSize, BaseSize,
                 ep, ef, 0) EXCEPT !.patience = pat] :
        ep \in 0..MaxEpochs, ef \in 0..MaxEpochs, pat \in Patiences}

(* ----------------------------- train_model ----------------------------- *)

Statements ==
    <<"start_run", "log_params", "load_data", "prepare_data_pipeline",
      "build_model", "compile_pretrain", "get_callbacks_pretrain",
      "fit_pretrain", "prepare_for_finetuning", "compile_finetune",
      "get_callbacks_finetune", "fit_finetune",
      "final_accuracy_finetune", "final_accuracy_pretrain", "evaluate",
      "log_metrics", "log_model",
      "convert_to_tflite", "write_tflite", "log_artifact", "return">>

Terminal == {"returned", "raised"}

\* The /train handler's state while train_model of trainer.py is what runs.
NoRequest == [body |-> "none", has_epochs |-> FALSE, epochs |-> 0]
NoTrainingConfig == [epochs |-> 0, learning_rate |-> 0, batch_size |-> 0]
NoResponse == [status |-> "none", code |-> 0, error |-> "none", traceback |-> <<>>]

\* A local of train_model not assigned yet; every metric is above it.
Unbound == 0

NoOptimizer == [id |-> 0, family |-> "none", learning_rate |-> 0, momentum |-> 0]

NoEvaluation == [test_loss |-> Unbound, test_accuracy |-> Unbound]

NoMetrics ==
    [final_train_accuracy |-> Unbound, final_val_accuracy |-> Unbound,
     test_accuracy |-> Unbound, test_loss |-> Unbound]

\* What model.evaluate(ds_test) may return.
Evaluations ==
    {[test_loss |-> 1, test_accuracy |-> 2], [test_loss |-> 2, test_accuracy |-> 1]}

\* Bytes in a mebibyte, and the lengths convert_to_tflite may return.
Mebibyte == 1048576
TfliteLengths == {Mebibyte, 3 * Mebibyte}

\* tf.keras.utils.set_random_seed(42) at import.
ImportSeed == 42

TflitePath == "/tmp/bean_disease_model.tflite"

\* Where, inside a run's artifact directory, log_model(model, "model") and
\* log_artifact(tflite_path, "tflite_model") store what they are given.
ModelArtifactPath == "model"
TfliteArtifactPath == "tflite_model/bean_disease_model.tflite"

RunStart ==
    /\ pc = "start_run"
    /\ steps = <<>>
    /\ error = "none"
    /\ splits = NoSplit
    /\ model = NoModel
    /\ prepCalls = 0
    /\ afterFirst = NoModel
    /\ sink = <<>>
    /\ result = "none"
    /\ optimizer = NoOptimizer
    /\ callbacks = NoCallbacks
    /\ history_pretrain = <<>>
    /\ history_finetune = <<>>
    /\ weights = InitialWeights
    /\ nextId = 1
    /\ final_accuracy = Unbound
    /\ final_val_accuracy = Unbound
    /\ evaluation = NoEvaluation
    /\ final_metrics = NoMetrics
    /\ tflite_model = Unbound
    /\ ds_train = NoDataset
    /\ ds_valid = NoDataset
    /\ ds_test = NoDataset
    /\ label_counts = NoCounts
    /\ request = NoRequest
    /\ training_config = NoTrainingConfig
    /\ api_history = <<>>
    /\ response = NoResponse

Init ==
    /\ \/ /\ config \in LoaderConfigs
          /\ labels \in Datasets
          /\ nLayers = UnfreezeFrom + 1
       \/ /\ config \in FlowConfigs
          /\ labels = BaseLabels
          /\ nLayers \in LayerCounts
       \/ /\ config \in EpochConfigs \cup OptimizerConfigs
          /\ labels = BaseLabels
          /\ nLayers = UnfreezeFrom + 1
    /\ run = 0
    /\ pastSplits = <<>>
    /\ files = {}
    /\ call = 1
    /\ artifacts = {}
    /\ globalRng = RandomState(ImportSeed)
    /\ RunStart

\* The statement executes and control moves to next.
Goto(stmt, next) ==
    /\ pc = stmt
    /\ pc' = next
    /\ steps' = Append(steps, stmt)

\* Variant: the failed statement is caught and executed again.
RaisesAndRetries(stmt, kind) ==
    /\ pc = stmt
    /\ pc' = stmt
    /\ steps' = Append(steps, stmt)
    /\ error' = kind
    /\ sink' = sink

\* Variant: the exception leaves train_model and the tracking run stays
\* as it is.
RaisesRunOpen(stmt, kind) ==
    /\ pc = stmt
    /\ pc' = "raised"
    /\ steps' = Append(steps, stmt)
    /\ error' = kind
    /\ sink' = sink

\* The statement raises: the with-block, once entered, ends the tracking
\* run as failed and the exception leaves train_model.
Raises(stmt, kind) ==
    /\ pc = stmt
    /\ pc' = "raised"
    /\ steps' = Append(steps, stmt)
    /\ error' = kind
    /\ sink' = IF sink # <<>> THEN Append(sink, "end_run_FAILED") ELSE sink

\* Variant: phase 2 also taken when epochs_finetune is 0.
FinetuneWantedAtZero(cfg) == cfg.epochs_finetune >= 0

\* if config.epochs_finetune > 0
FinetuneWanted(cfg) == cfg.epochs_finetune > 0

\* Learning rates of the Nadam branch (1e-4, 1e-5) in units of 1e-5, and
\* the momentum of the SGD branch (0.9) in tenths.
NadamPretrainLr == 10
NadamFinetuneLr == 1
SgdMomentum == 9

\* Variant: the pretrain rate is used in every phase.
GetOptimizerInitialRate(cfg, phase, id) ==
    IF cfg.optimizer = "NADAM"
    THEN [id |-> id, family |-> "NADAM",
          learning_rate |-> IF phase = "pretrain" THEN NadamPretrainLr
                            ELSE NadamFinetuneLr,
          momentum |-> 0]
    ELSE [id |-> id, family |-> cfg.optimizer, learning_rate |-> cfg.initial_lr,
          momentum |-> IF cfg.optimizer = "SGD" THEN SgdMomentum ELSE 0]

\* get_optimizer(config, phase): a new optimizer object, id telling the
\* objects apart; None when no branch matches.
GetOptimizer(cfg, phase, id) ==
    IF cfg.optimizer = "SGD"
    THEN [id |-> id, family |-> "SGD",
          learning_rate |-> IF phase = "pretrain" THEN cfg.initial_lr
                            ELSE cfg.finetune_lr,
          momentum |-> SgdMomentum]
    ELSE IF cfg.optimizer = "ADAM"
    THEN [id |-> id, family |-> "ADAM",
          learning_rate |-> IF phase = "pretrain" THEN cfg.initial_lr
                            ELSE cfg.finetune_lr,
          momentum |-> 0]
    ELSE IF cfg.optimizer = "NADAM"
    THEN [id |-> id, family |-> "NADAM",
          learning_rate |-> IF phase = "pretrain" THEN NadamPretrainLr
                            ELSE NadamFinetuneLr,
          momentum |-> 0]
    ELSE NoOptimizer

\* Variant: history[0], the first epoch.
FirstEpoch(history) == history[1]

\* history[-1]: the last epoch that ran.
LastEpoch(history) == history[Len(history)]

\* The final_metrics dict of lines 102-107.
FinalMetrics(accuracy, val_accuracy, eval) ==
    [final_train_accuracy |-> accuracy, final_val_accuracy |-> val_accuracy,
     test_accuracy |-> eval.test_accuracy, test_loss |-> eval.test_loss]

\* TrainingConfig.to_dict(): the ten fields it lists.
ToDict(cfg) ==
    [base_model |-> cfg.base_model, optimizer |-> cfg.optimizer,
     dataset_source |-> cfg.dataset_source, batch_size |-> cfg.batch_size,
     epochs_pretrain |-> cfg.epochs_pretrain,
     epochs_finetune |-> cfg.epochs_finetune,
     initial_lr |-> cfg.initial_lr, finetune_lr |-> cfg.finetune_lr,
     dropout_rate |-> cfg.dropout_rate, random_seed |-> cfg.random_seed]

\* The result dict of lines 128-135; the run id is the tracking run's, the
\* size is len(tflite_model) / (1024 * 1024), the message quotes the test
\* accuracy.
Result(cfg, metrics, tflite, eval) ==
    [status |-> "success",
     mlflow_run_id |-> "active_run",
     metrics |-> metrics,
     tflite_size_mb |-> tflite \div Mebibyte,
     training_config |-> ToDict(cfg),
     message |-> <<"Training completed! Test accuracy: ", eval.test_accuracy>>]

\* Lines 24-27: tracking uri, experiment, mlflow.start_run.
StartRun ==
    /\ Goto("start_run", "log_params")
    /\ sink' = Append(sink, "start_run")
    /\ UNCHANGED <<apiVars, fitVars, outVars, dataVars, config, labels, nLayers,
                   run, error, splits, pastSplits, model, prepCalls, afterFirst,
                   files, call, artifacts, result, globalRng>>

\* Lines 29-30: mlflow.log_params, mlflow.log_param.
LogParams ==
    /\ Goto("log_params", "load_data")
    /\ sink' = sink \o <<"log_params", "log_param">>
    /\ UNCHANGED <<apiVars, fitVars, outVars, dataVars, config, labels, nLayers,
                   run, error, splits, pastSplits, model, prepCalls, afterFirst,
                   files, call, artifacts, result, globalRng>>

\* Lines 32-35: data_loader.load_data(); splits holds what the call
\* returned, or the exception it raised.
LoadDataStep ==
    /\ pc = "load_data"
    /\ splits' = LoadData(config, labels, globalRng)
    /\ \/ /\ splits'.ok
          /\ Goto("load_data", "prepare_data_pipeline")
          /\ UNCHANGED <<error, sink>>
       \/ /\ ~splits'.ok
          /\ Raises("load_data", splits'.error)
    /\ run' = run + 1
    /\ label_counts' = IF splits'.ok THEN CountSplits(labels, splits')
                       ELSE label_counts
    /\ ds_train' = IF splits'.ok THEN FromGenerator(splits'.train) ELSE ds_train
    /\ ds_valid' = IF splits'.ok THEN FromGenerator(splits'.val) ELSE ds_valid
    /\ ds_test' = IF splits'.ok THEN FromGenerator(splits'.test) ELSE ds_test
    /\ UNCHANGED <<apiVars, fitVars, outVars, config, labels, nLayers,
                   pastSplits, model, prepCalls, afterFirst, files, call,
                   artifacts, result, globalRng>>

\* Lines 37-41: prepare_data_pipeline.
PrepareDataPipeline ==
    /\ Goto("prepare_data_pipeline", "build_model")
    /\ ds_train' = TrainPipeline(ds_train, config)
    /\ ds_valid' = EvalPipeline(ds_valid, config)
    /\ ds_test' = EvalPipeline(ds_test, config)
    /\ UNCHANGED <<apiVars, fitVars, outVars, label_counts, config, labels,
                   nLayers, run, error, splits, pastSplits, model, prepCalls,
                   afterFirst, files, call, artifacts, sink, result, globalRng>>

\* Lines 43-49: model_builder.build_model().
BuildModelStep ==
    /\ Goto("build_model", "compile_pretrain")
    /\ model' = BuildModel(config, nLayers)
    /\ UNCHANGED <<apiVars, fitVars, outVars, dataVars, config, labels, nLayers,
                   run, error, splits, pastSplits, prepCalls, afterFirst, files,
                   call, artifacts, sink, result, globalRng>>

\* Lines 53-58: get_optimizer and compile, phase 1.
CompilePretrain ==
    /\ Goto("compile_pretrain", "get_callbacks_pretrain")
    /\ optimizer' = GetOptimizer(config, "pretrain", nextId)
    /\ nextId' = nextId + 1
    /\ UNCHANGED <<callbacks, history_pretrain, history_finetune, weights>>
    /\ UNCHANGED <<apiVars, outVars, dataVars, config, labels, nLayers, run,
                   error, splits, pastSplits, model, prepCalls, afterFirst,
                   files, call, artifacts, sink, result, globalRng>>

\* Line 60: get_callbacks(config, phase="pretrain").
GetCallbacksPretrain ==
    /\ Goto("get_callbacks_pretrain", "fit_pretrain")
    /\ callbacks' = GetCallbacks(config, nextId, callbacks)
    /\ nextId' = nextId + 1
    /\ UNCHANGED <<optimizer, history_pretrain, history_finetune, weights>>
    /\ UNCHANGED <<apiVars, outVars, dataVars, config, labels, nLayers, run,
                   error, splits, pastSplits, model, prepCalls, afterFirst,
                   files, call, artifacts, sink, result, globalRng>>

\* Lines 61-70: the phase 1 fit, then the branch on epochs_finetune.
FitPretrain ==
    /\ Goto("fit_pretrain",
            IF FinetuneWanted(config) THEN "prepare_for_finetuning"
            ELSE "final_accuracy_pretrain")
    /\ \E plan \in Plans(config.epochs_pretrain) :
          LET fitted == Fit(plan, 1, callbacks, weights)
          IN /\ history_pretrain' = fitted.history
             /\ callbacks' = <<fitted.es>>
             /\ weights' = fitted.weights
    /\ globalRng' = RngNext(globalRng)
    /\ UNCHANGED <<optimizer, history_finetune, nextId>>
    /\ UNCHANGED <<apiVars, outVars, dataVars, config, labels, nLayers, run,
                   error, splits, pastSplits, model, prepCalls, afterFirst,
                   files, call, artifacts, sink, result>>

\* Line 72: model_builder.prepare_for_finetuning(model, base_model).
PrepareForFinetuningStep ==
    /\ Goto("prepare_for_finetuning", "compile_finetune")
    /\ model' = PrepareForFinetuning(config, model)
    /\ prepCalls' = prepCalls + 1
    /\ afterFirst' = IF prepCalls = 0 THEN model' ELSE afterFirst
    /\ UNCHANGED <<apiVars, fitVars, outVars, dataVars, config, labels, nLayers,
                   run, error, splits, pastSplits, files, call, artifacts, sink,
                   result, globalRng>>

\* Lines 74-79: get_optimizer and compile, phase 2.
CompileFinetune ==
    /\ Goto("compile_finetune", "get_callbacks_finetune")
    /\ optimizer' = GetOptimizer(config, "finetune", nextId)
    /\ nextId' = nextId + 1
    /\ UNCHANGED <<callbacks, history_pretrain, history_finetune, weights>>
    /\ UNCHANGED <<apiVars, outVars, dataVars, config, labels, nLayers, run,
                   error, splits, pastSplits, model, prepCalls, afterFirst,
                   files, call, artifacts, sink, result, globalRng>>

\* Line 81: get_callbacks(config, phase="finetune").
GetCallbacksFinetune ==
    /\ Goto("get_callbacks_finetune", "fit_finetune")
    /\ callbacks' = GetCallbacks(config, nextId, callbacks)
    /\ nextId' = nextId + 1
    /\ UNCHANGED <<optimizer, history_pretrain, history_finetune, weights>>
    /\ UNCHANGED <<apiVars, outVars, dataVars, config, labels, nLayers, run,
                   error, splits, pastSplits, model, prepCalls, afterFirst,
                   files, call, artifacts, sink, result, globalRng>>

\* Lines 82-88: the phase 2 fit.
FitFinetune ==
    /\ Goto("fit_finetune", "final_accuracy_finetune")
    /\ \E plan \in Plans(config.epochs_finetune) :
          LET fitted == Fit(plan, 2, callbacks, weights)
          IN /\ history_finetune' = fitted.history
             /\ callbacks' = <<fitted.es>>
             /\ weights' = fitted.weights
    /\ globalRng' = RngNext(globalRng)
    /\ UNCHANGED <<optimizer, history_pretrain, nextId>>
    /\ UNCHANGED <<apiVars, outVars, dataVars, config, labels, nLayers, run,
                   error, splits, pastSplits, model, prepCalls, afterFirst,
                   files, call, artifacts, sink, result>>

\* Lines 91-92 and 94-95: history.history["accuracy"][-1] and
\* history.history["val_accuracy"][-1] of the phase 2 fit in the if-branch,
\* of the phase 1 fit in the else-branch; a fit of no epoch leaves
\* history.history empty and the lookup raises KeyError.
FinalAccuracy ==
    /\ \E stmt \in {"final_accuracy_finetune", "final_accuracy_pretrain"} :
          LET history == IF stmt = "final_accuracy_finetune"
                         THEN history_finetune ELSE history_pretrain
          IN \/ /\ history # <<>>
                /\ Goto(stmt, "evaluate")
                /\ final_accuracy' = LastEpoch(history).accuracy
                /\ final_val_accuracy' = LastEpoch(history).val_accuracy
                /\ UNCHANGED <<error, sink>>
             \/ /\ history = <<>>
                /\ Raises(stmt, "KeyError")
                /\ UNCHANGED <<final_accuracy, final_val_accuracy>>
    /\ UNCHANGED <<evaluation, final_metrics, tflite_model>>
    /\ UNCHANGED <<apiVars, fitVars, dataVars, config, labels, nLayers, run,
                   splits, pastSplits, model, prepCalls, afterFirst, files,
                   call, artifacts, result, globalRng>>

\* Lines 98-99: model.evaluate(ds_test).
Evaluate ==
    /\ Goto("evaluate", "log_metrics")
    /\ evaluation' \in Evaluations
    /\ UNCHANGED <<final_accuracy, final_val_accuracy, final_metrics,
                   tflite_model>>
    /\ UNCHANGED <<apiVars, fitVars, dataVars, config, labels, nLayers, run,
                   error, splits, pastSplits, model, prepCalls, afterFirst,
                   files, call, artifacts, sink, result, globalRng>>

\* Lines 102-108: final_metrics is built and passed to mlflow.log_metrics.
LogMetrics ==
    /\ Goto("log_metrics", "log_model")
    /\ final_metrics' = FinalMetrics(final_accuracy, final_val_accuracy, evaluation)
    /\ sink' = Append(sink, "log_metrics")
    /\ UNCHANGED <<final_accuracy, final_val_accuracy, evaluation,
                   tflite_model>>
    /\ UNCHANGED <<apiVars, fitVars, dataVars, config, labels, nLayers, run,
                   error, splits, pastSplits, model, prepCalls, afterFirst,
                   files, call, artifacts, result, globalRng>>

\* Line 112: mlflow.tensorflow.log_model(model, "model").
LogModel ==
    /\ Goto("log_model", "convert_to_tflite")
    /\ sink' = Append(sink, "log_model")
    /\ artifacts' = artifacts \cup {[run |-> call, path |-> ModelArtifactPath]}
    /\ UNCHANGED <<apiVars, fitVars, outVars, dataVars, config, labels, nLayers,
                   run, error, splits, pastSplits, model, prepCalls, afterFirst,
                   files, call, result, globalRng>>

\* Line 116: convert_to_tflite(model).
ConvertToTflite ==
    /\ Goto("convert_to_tflite", "write_tflite")
    /\ tflite_model' \in TfliteLengths
    /\ UNCHANGED <<final_accuracy, final_val_accuracy, evaluation,
                   final_metrics>>
    /\ UNCHANGED <<apiVars, fitVars, dataVars, config, labels, nLayers, run,
                   error, splits, pastSplits, model, prepCalls, afterFirst,
                   files, call, artifacts, sink, result, globalRng>>

\* Lines 119-121: the converted model is written to the fixed path.
WriteTflite ==
    /\ Goto("write_tflite", "log_artifact")
    /\ files' = {f \in files : f.path # TflitePath}
                 \cup {[path |-> TflitePath, call |-> call]}
    /\ UNCHANGED <<call, artifacts>>
    /\ UNCHANGED <<apiVars, fitVars, outVars, dataVars, config, labels, nLayers,
                   run, error, splits, pastSplits, model, prepCalls, afterFirst,
                   sink, result, globalRng>>

\* Lines 123-126: mlflow.log_artifact and the size metric.
LogArtifact ==
    /\ Goto("log_artifact", "return")
    /\ sink' = sink \o <<"log_artifact", "log_metric">>
    /\ artifacts' = artifacts \cup {[run |-> call, path |-> TfliteArtifactPath]}
    /\ UNCHANGED <<apiVars, fitVars, outVars, dataVars, config, labels, nLayers,
                   run, error, splits, pastSplits, model, prepCalls, afterFirst,
                   files, call, result, globalRng>>

\* Lines 128-138: the result is built and returned; the with-block ends the
\* tracking run.
Return ==
    /\ Goto("return", "returned")
    /\ result' = Result(config, final_metrics, tflite_model, evaluation)
    /\ sink' = Append(sink, "end_run_FINISHED")
    /\ UNCHANGED <<apiVars, fitVars, outVars, dataVars, config, labels, nLayers,
                   run, error, splits, pastSplits, model, prepCalls, afterFirst,
                   files, call, artifacts, globalRng>>

\* Any statement may raise for a reason outside the model (source
\* unreachable, out of memory, sink unreachable); train_model has no handler.
Raise ==
    /\ \E k \in DOMAIN Statements : Raises(Statements[k], "Exception")
    /\ UNCHANGED <<apiVars, fitVars, outVars, dataVars, config, labels, nLayers,
                   run, splits, pastSplits, model, prepCalls, afterFirst, files,
                   call, artifacts, result, globalRng>>

Next ==
    \/ StartRun
    \/ LogParams
    \/ LoadDataStep
    \/ PrepareDataPipeline
    \/ BuildModelStep
    \/ CompilePretrain
    \/ GetCallbacksPretrain
    \/ FitPretrain
    \/ PrepareForFinetuningStep
    \/ CompileFinetune
    \/ GetCallbacksFinetune
    \/ FitFinetune
    \/ FinalAccuracy
    \/ Evaluate
    \/ LogMetrics
    \/ LogModel
    \/ ConvertToTflite
    \/ WriteTflite
    \/ LogArtifact
    \/ Return
    \/ Raise

Spec == Init /\ [][Next]_vars

(* ------------------- the model builder called directly ----------------- *)

\* Every backbone choice and preprocessing placement, every layer count.
BuilderConfigs ==
    {MakeConfig(bm, pim, "TENSORFLOW", BaseSize, BaseSize, BaseSize, 1, 1, 0) :
        bm \in BaseModel, pim \in BOOLEAN}

InitBuilder ==
    /\ config \in BuilderConfigs
    /\ labels = BaseLabels
    /\ nLayers \in 0..MaxLayers
    /\ run = 0
    /\ pastSplits = <<>>
    /\ files = {}
    /\ call = 1
    /\ artifacts = {}
    /\ globalRng = RandomState(ImportSeed)
    /\ RunStart

\* model, base_model = builder.build_model()
CallBuildModel ==
    /\ ~model.built
    /\ model' = BuildModel(config, nLayers)
    /\ UNCHANGED <<apiVars, fitVars, outVars, dataVars, config, labels, nLayers,
                   run, pc, steps, error, splits, pastSplits, prepCalls,
                   afterFirst, files, call, artifacts, sink, result, globalRng>>

\* builder.prepare_for_finetuning(model, base_model), any number of times.
CallPrepareForFinetuning ==
    /\ model.built
    /\ prepCalls < MaxPrepCalls
    /\ model' = PrepareForFinetuning(config, model)
    /\ prepCalls' = prepCalls + 1
    /\ afterFirst' = IF prepCalls = 0 THEN model' ELSE afterFirst
    /\ UNCHANGED <<apiVars, fitVars, outVars, dataVars, config, labels, nLayers,
                   run, pc, steps, error, splits, pastSplits, files, call,
                   artifacts, sink, result, globalRng>>

NextBuilder ==
    \/ CallBuildModel
    \/ CallPrepareForFinetuning

SpecBuilder == InitBuilder /\ [][NextBuilder]_vars

(* -------------------- the data loader called directly ------------------ *)

InitLoader ==
    /\ config \in LoaderConfigs
    /\ labels \in Datasets
    /\ nLayers = UnfreezeFrom + 1
    /\ run = 0
    /\ pastSplits = <<>>
    /\ files = {}
    /\ call = 1
    /\ artifacts = {}
    /\ globalRng = RandomState(ImportSeed)
    /\ RunStart

\* BeanDataLoader(config).load_data(), by a new loader each time.
CallLoadData ==
    /\ run < MaxLoads
    /\ run' = run + 1
    /\ splits' = LoadData(config, labels, globalRng)
    /\ pastSplits' = IF run = 0 THEN pastSplits ELSE Append(pastSplits, splits)
    /\ steps' = Append(steps, "load_data")
    /\ label_counts' = IF splits'.ok THEN CountSplits(labels, splits')
                       ELSE label_counts
    /\ ds_train' = IF splits'.ok THEN FromGenerator(splits'.train) ELSE ds_train
    /\ ds_valid' = IF splits'.ok THEN FromGenerator(splits'.val) ELSE ds_valid
    /\ ds_test' = IF splits'.ok THEN FromGenerator(splits'.test) ELSE ds_test
    /\ UNCHANGED <<apiVars, fitVars, outVars, config, labels, nLayers, pc,
                   error, model, prepCalls, afterFirst, files, call, artifacts,
                   sink, result, globalRng>>

\* Between two loads the process draws from the process-wide generator.
DrawGlobal ==
    /\ steps # <<>>
    /\ steps[Len(steps)] = "load_data"
    /\ globalRng' = RngNext(globalRng)
    /\ steps' = Append(steps, "draw")
    /\ UNCHANGED <<apiVars, fitVars, outVars, dataVars, config, labels, nLayers,
                   run, pc, error, splits, pastSplits, model, prepCalls,
                   afterFirst, files, call, artifacts, sink, result>>

NextLoader ==
    \/ CallLoadData
    \/ DrawGlobal

SpecLoader == InitLoader /\ [][NextLoader]_vars

(* -------------------- train_model called several times ---------------- *)

InitRuns ==
    /\ config \in FlowConfigs
    /\ config.base_model = "XCEPTION"
    /\ ~config.preprocess_in_model
    /\ labels = BaseLabels
    /\ nLayers = UnfreezeFrom + 1
    /\ run = 0
    /\ pastSplits = <<>>
    /\ files = {}
    /\ call = 1
    /\ artifacts = {}
    /\ globalRng = RandomState(ImportSeed)
    /\ RunStart

\* The process calls train_model(config) again after a call has ended: the
\* locals start anew, the local files, the artifact store and the
\* process-wide generator stay as they are.
CallAgain ==
    /\ pc \in Terminal
    /\ call < MaxCalls
    /\ call' = call + 1
    /\ pc' = "start_run"
    /\ steps' = <<>>
    /\ error' = "none"
    /\ splits' = NoSplit
    /\ model' = NoModel
    /\ prepCalls' = 0
    /\ afterFirst' = NoModel
    /\ sink' = <<>>
    /\ result' = "none"
    /\ optimizer' = NoOptimizer
    /\ callbacks' = NoCallbacks
    /\ history_pretrain' = <<>>
    /\ history_finetune' = <<>>
    /\ weights' = InitialWeights
    /\ nextId' = 1
    /\ final_accuracy' = Unbound
    /\ final_val_accuracy' = Unbound
    /\ evaluation' = NoEvaluation
    /\ final_metrics' = NoMetrics
    /\ tflite_model' = Unbound
    /\ ds_train' = NoDataset
    /\ ds_valid' = NoDataset
    /\ ds_test' = NoDataset
    /\ label_counts' = NoCounts
    /\ UNCHANGED <<apiVars, config, labels, nLayers, run, pastSplits, files,
                   artifacts, globalRng>>

NextRuns ==
    \/ Next
    \/ CallAgain

SpecRuns == InitRuns /\ [][NextRuns]_vars

(* ------------- the data loader followed by its label counts ----------- *)

\* A dataset with counts[c] examples of class c, class after class.
Block(counts) ==
    [k \in 1..(counts[0] + counts[1] + counts[2]) |->
        IF k <= counts[0] THEN 0 ELSE IF k <= counts[0] + counts[1] THEN 1 ELSE 2]

\* Each class has MinPerClass examples, a few more, or three times as many.
LargeClassSizes == (MinPerClass..(MinPerClass + MaxExtra)) \cup {3 * MinPerClass}

LargeDatasets == {Block(counts) : counts \in [Classes -> LargeClassSizes]}

\* Split sizes from just above the smallest sklearn accepts for three
\* classes to sizes that leave the test split 40 examples of a dataset of
\* 3 * MinPerClass.
LargeTrainSizes == {4, 20, 21, 3 * MinPerClass - 81}
LargeValSizes == {4, 40, 41}

LargeConfigs ==
    {MakeConfig("XCEPTION", FALSE, "TENSORFLOW", tr, va, 1, 1, 1, seed) :
        tr \in LargeTrainSizes, va \in LargeValSizes, seed \in 0..MaxSeed}

InitCounts ==
    /\ config \in LargeConfigs
    /\ labels \in LargeDatasets
    /\ nLayers = UnfreezeFrom + 1
    /\ run = 0
    /\ pastSplits = <<>>
    /\ files = {}
    /\ call = 1
    /\ artifacts = {}
    /\ globalRng = RandomState(ImportSeed)
    /\ RunStart

\* BeanDataLoader(config).load_data(), followed through the label counts of
\* its three splits; the index lists are not followed.
CallLoadDataCounted ==
    /\ run < MaxLoads
    /\ run' = run + 1
    /\ label_counts' = LoadCounts(config, Counter(labels), globalRng)
    /\ steps' = Append(steps, "load_data")
    /\ UNCHANGED <<ds_train, ds_valid, ds_test>>
    /\ UNCHANGED <<apiVars, fitVars, outVars, config, labels, nLayers, pc,
                   error, splits, pastSplits, model, prepCalls, afterFirst,
                   files, call, artifacts, sink, result, globalRng>>

NextCounts ==
    \/ CallLoadDataCounted
    \/ DrawGlobal

SpecCounts == InitCounts /\ [][NextCounts]_vars

(* --------------------- api.py: the POST /train handler ----------------- *)

\* What the handler leaves alone: the state of trainer.train_model.
trainerVars ==
    <<config, labels, nLayers, run, splits, pastSplits, model, prepCalls,
      afterFirst, call, result, globalRng, fitVars, outVars, dataVars>>

ApiStatements ==
    <<"get_json", "set_defaults", "api_start_run", "api_log_params",
      "api_load_data", "api_build_model", "api_fit", "api_final_metrics",
      "api_log_metrics", "api_log_model", "api_convert", "api_write_tflite",
      "api_log_artifact", "api_return">>

ApiTflitePath == "/tmp/model.tflite"

\* The bodies a request may carry: nothing that parses as JSON, JSON that
\* is no object, or an object with or without the key "epochs".
Requests ==
    {[body |-> b, has_epochs |-> FALSE, epochs |-> 0] :
        b \in {"not_json", "malformed", "list", "object"}}
    \cup {[body |-> "object", has_epochs |-> TRUE, epochs |-> e] : e \in 0..MaxEpochs}

\* The exceptions the handler's statements raise; all derive from Exception.
Exceptions == {"BadRequest", "AttributeError", "KeyError", "Exception"}

\* Variant: except ValueError.
CatchesValueError(kind) == kind = "ValueError"

\* except Exception as e
Catches(kind) == kind \in Exceptions

\* str(e) and traceback.format_exc() for the exception being handled.
ErrorEnvelope(kind, stmt) ==
    [status |-> "error", code |-> 500, error |-> kind,
     traceback |-> <<"Traceback (most recent call last):", stmt, kind>>]

\* jsonify(result) with the default status.
SuccessPayload == [status |-> "success", code |-> 200, error |-> "none", traceback |-> <<>>]

InitApi ==
    /\ config \in BuilderConfigs
    /\ config.base_model = "XCEPTION"
    /\ ~config.preprocess_in_model
    /\ labels = BaseLabels
    /\ nLayers = UnfreezeFrom + 1
    /\ run = 0
    /\ pastSplits = <<>>
    /\ files = {}
    /\ call = 1
    /\ artifacts = {}
    /\ globalRng = RandomState(ImportSeed)
    /\ RunStart

\* A POST /train arrives and Flask calls the handler.
ApiRequest ==
    /\ pc = "start_run"
    /\ request = NoRequest
    /\ request' \in Requests
    /\ pc' = "get_json"
    /\ UNCHANGED <<steps, error, sink, files, artifacts, training_config,
                   api_history, response, trainerVars>>

ApiGoto(stmt, next) ==
    /\ pc = stmt
    /\ pc' = next
    /\ steps' = Append(steps, stmt)

\* The statement raises inside the try block: a with-block that was entered
\* ends the tracking run as failed; then the except clause takes the
\* exception if it catches its kind, builds the envelope and returns it
\* with status 500 (lines 115-122), else the exception leaves the handler.
ApiRaises(stmt, kind) ==
    /\ pc = stmt
    /\ steps' = Append(steps, stmt)
    /\ error' = kind
    /\ sink' = IF sink # <<>> THEN Append(sink, "end_run_FAILED") ELSE sink
    /\ IF Catches(kind)
       THEN /\ pc' = "responded"
            /\ response' = ErrorEnvelope(kind, stmt)
       ELSE /\ pc' = "escaped"
            /\ response' = response

\* Line 29: config = request.get_json() or {}.  A malformed body raises
\* BadRequest; a body that is not JSON gives None or raises, by the Flask
\* version.
ApiGetJson ==
    /\ \/ /\ request.body \in {"list", "object"}
          /\ ApiGoto("get_json", "set_defaults")
          /\ UNCHANGED <<error, sink, response>>
       \/ /\ request.body = "not_json"
          /\ ApiGoto("get_json", "set_defaults")
          /\ UNCHANGED <<error, sink, response>>
       \/ /\ request.body \in {"not_json", "malformed"}
          /\ ApiRaises("get_json", "BadRequest")
    /\ UNCHANGED <<files, artifacts, request, training_config, api_history,
                   trainerVars>>

\* Lines 32-42: the defaults; config.get on a JSON list raises
\* AttributeError.
ApiSetDefaults ==
    /\ \/ /\ request.body # "list"
          /\ ApiGoto("set_defaults", "api_start_run")
          /\ training_config' =
                [epochs |-> IF request.body = "object" /\ request.has_epochs
                            THEN request.epochs ELSE 5,
                 learning_rate |-> 100, batch_size |-> 32]
          /\ UNCHANGED <<error, sink, response>>
       \/ /\ request.body = "list"
          /\ ApiRaises("set_defaults", "AttributeError")
          /\ UNCHANGED training_config
    /\ UNCHANGED <<files, artifacts, request, api_history, trainerVars>>

\* Lines 45-49: tracking uri, experiment, mlflow.start_run.
ApiStartRun ==
    /\ ApiGoto("api_start_run", "api_log_params")
    /\ sink' = Append(sink, "start_run")
    /\ UNCHANGED <<error, files, artifacts, apiVars, trainerVars>>

\* Lines 51-52: mlflow.log_params, mlflow.log_param.
ApiLogParams ==
    /\ ApiGoto("api_log_params", "api_load_data")
    /\ sink' = sink \o <<"log_params", "log_param">>
    /\ UNCHANGED <<error, files, artifacts, apiVars, trainerVars>>

\* Line 55: load_data(), synthetic arrays.
ApiLoadData ==
    /\ ApiGoto("api_load_data", "api_build_model")
    /\ UNCHANGED <<error, sink, files, artifacts, apiVars, trainerVars>>

\* Lines 58-65: build_model() and compile.
ApiBuildModel ==
    /\ ApiGoto("api_build_model", "api_fit")
    /\ UNCHANGED <<error, sink, files, artifacts, apiVars, trainerVars>>

\* Lines 68-75: model.fit for training_config["epochs"] epochs, no callback.
ApiFit ==
    /\ ApiGoto("api_fit", "api_final_metrics")
    /\ api_history' \in Plans(training_config.epochs)
    /\ UNCHANGED <<error, sink, files, artifacts, request, training_config,
                   response, trainerVars>>

\* Lines 78-83: history.history[...][-1]; KeyError when no epoch ran.
ApiFinalMetrics ==
    /\ \/ /\ api_history # <<>>
          /\ ApiGoto("api_final_metrics", "api_log_metrics")
          /\ UNCHANGED <<error, sink, response>>
       \/ /\ api_history = <<>>
          /\ ApiRaises("api_final_metrics", "KeyError")
    /\ UNCHANGED <<files, artifacts, request, training_config, api_history,
                   trainerVars>>

\* Line 85: mlflow.log_metrics(final_metrics).
ApiLogMetrics ==
    /\ ApiGoto("api_log_metrics", "api_log_model")
    /\ sink' = Append(sink, "log_metrics")
    /\ UNCHANGED <<error, files, artifacts, apiVars, trainerVars>>

\* Line 88: mlflow.tensorflow.log_model(model, "model").
ApiLogModel ==
    /\ ApiGoto("api_log_model", "api_convert")
    /\ sink' = Append(sink, "log_model")
    /\ artifacts' = artifacts \cup {[run |-> call, path |-> ModelArtifactPath]}
    /\ UNCHANGED <<error, files, apiVars, trainerVars>>

\* Lines 91-93: the TFLite conversion.
ApiConvert ==
    /\ ApiGoto("api_convert", "api_write_tflite")
    /\ UNCHANGED <<error, sink, files, artifacts, apiVars, trainerVars>>

\* Lines 96-98: the converted model is written to the fixed path.
ApiWriteTflite ==
    /\ ApiGoto("api_write_tflite", "api_log_artifact")
    /\ files' = {f \in files : f.path # ApiTflitePath}
                 \cup {[path |-> ApiTflitePath, call |-> call]}
    /\ UNCHANGED <<error, sink, artifacts, apiVars, trainerVars>>

\* Lines 99-102: mlflow.log_artifact and the size metric.
ApiLogArtifact ==
    /\ ApiGoto("api_log_artifact", "api_return")
    /\ sink' = sink \o <<"log_artifact", "log_metric">>
    /\ artifacts' = artifacts \cup {[run |-> call, path |-> "tflite_model/model.tflite"]}
    /\ UNCHANGED <<error, files, apiVars, trainerVars>>

\* Lines 104-113: the result is built and returned as JSON; the with-block
\* ends the tracking run.
ApiReturn ==
    /\ ApiGoto("api_return", "responded")
    /\ response' = SuccessPayload
    /\ sink' = Append(sink, "end_run_FINISHED")
    /\ UNCHANGED <<error, files, artifacts, request, training_config,
                   api_history, trainerVars>>

\* Any statement of the try block may raise for a reason outside the model
\* (tracking server unreachable, out of memory, disk full).
ApiRaise ==
    /\ \E k \in DOMAIN ApiStatements : ApiRaises(ApiStatements[k], "Exception")
    /\ UNCHANGED <<files, artifacts, request, training_config, api_history,
                   trainerVars>>

NextApi ==
    \/ ApiRequest
    \/ ApiGetJson
    \/ ApiSetDefaults
    \/ ApiStartRun
    \/ ApiLogParams
    \/ ApiLoadData
    \/ ApiBuildModel
    \/ ApiFit
    \/ ApiFinalMetrics
    \/ ApiLogMetrics
    \/ ApiLogModel
    \/ ApiConvert
    \/ ApiWriteTflite
    \/ ApiLogArtifact
    \/ ApiReturn
    \/ ApiRaise

SpecApi == InitApi /\ [][NextApi]_vars

(* ============================ properties =============================== *)

IsPrefix(s, t) == Len(s) <= Len(t) /\ SubSeq(t, 1, Len(s)) = s

\* The orchestrator state a statement belongs to.
StateOf(stmt) ==
    IF stmt \in {"start_run", "log_params", "load_data", "prepare_data_pipeline",
                 "build_model"}
    THEN "LOADING"
    ELSE IF stmt \in {"compile_pretrain", "get_callbacks_pretrain", "fit_pretrain",
                      "final_accuracy_pretrain"}
    THEN "PHASE1_TRAINING"
    ELSE IF stmt \in {"prepare_for_finetuning", "compile_finetune",
                      "get_callbacks_finetune", "fit_finetune",
                      "final_accuracy_finetune"}
    THEN "PHASE2_TRAINING"
    ELSE IF stmt \in {"evaluate", "log_metrics"}
    THEN "EVALUATING"
    ELSE "EXPORTING"

\* A sequence without its immediate repetitions.
RECURSIVE Dedup(_)
Dedup(s) ==
    IF Len(s) <= 1 THEN s
    ELSE IF s[1] = s[2] THEN Dedup(Tail(s))
    ELSE <<s[1]>> \o Dedup(Tail(s))

\* The orchestrator states this call has entered, in order.
Entered ==
    Dedup([k \in DOMAIN steps |-> StateOf(steps[k])])
    \o (IF pc = "returned" THEN <<"DONE">> ELSE <<>>)

StateOrder(ef) ==
    IF ef > 0
    THEN <<"LOADING", "PHASE1_TRAINING", "PHASE2_TRAINING", "EVALUATING",
           "EXPORTING", "DONE">>
    ELSE <<"LOADING", "PHASE1_TRAINING", "EVALUATING", "EXPORTING", "DONE">>

\* C1: the states a call has entered are always an initial part of LOADING,
\* PHASE1_TRAINING, [PHASE2_TRAINING,] EVALUATING, EXPORTING, DONE, with
\* PHASE2_TRAINING in the order exactly when epochs_finetune > 0; a call
\* that returned has entered all of them.
C1_StateOrder ==
    /\ IsPrefix(Entered, StateOrder(config.epochs_finetune))
    /\ pc = "returned" => Entered = StateOrder(config.epochs_finetune)

\* C1 witnesses: a call returned after the fine-tuning phase.
C1_Witness ==
    /\ pc = "returned"
    /\ config.epochs_finetune > 0
    /\ \E k \in DOMAIN steps : steps[k] = "fit_finetune"

NoRepeat(s) == \A i, j \in DOMAIN s : s[i] = s[j] => i = j

\* C2: once a statement of a call has raised, the call executes nothing
\* more and returns no result, and no statement is executed twice within a
\* call.
C2_AbortNoRetry ==
    [][/\ NoRepeat(steps')
       /\ pc' = "raised" => result' = "none" /\ error' # "none"
       /\ pc = "raised" => UNCHANGED <<steps, result, splits, model, files, sink>>]_vars

\* C2 witnesses: the phase 2 fit raised and the call ended without a result.
C2_Witness ==
    /\ pc = "raised"
    /\ error = "Exception"
    /\ steps[Len(steps)] = "fit_finetune"
    /\ result = "none"

AllIndices == {k - 1 : k \in DOMAIN labels}

Distinct(s) == Cardinality(Range(s)) = Len(s)

\* C3 as claimed: when train_size + val_size + test_size exceeds the number
\* of examples, the call does not get past loading: no split is produced,
\* no model is built and no file is written.
C3_OversizeFailsInLoading ==
    config.train_size + config.val_size + config.test_size > Len(labels)
        => /\ ~splits.ok
           /\ ~model.built
           /\ files = {}
           /\ "load_data" \in Range(steps) => pc = "raised"

\* C4: the three index lists of a successful load are pairwise disjoint and
\* hold only indices of the dataset.
C4_SplitsDisjoint ==
    splits.ok =>
        /\ Range(splits.train) \cap Range(splits.val) = {}
        /\ Range(splits.train) \cap Range(splits.test) = {}
        /\ Range(splits.val) \cap Range(splits.test) = {}
        /\ Range(splits.train) \cup Range(splits.val) \cup Range(splits.test)
               \subseteq AllIndices

\* C4 witnesses: a load produced three non-empty splits.
C4_Witness ==
    /\ splits.ok
    /\ splits.train # <<>>
    /\ splits.val # <<>>
    /\ splits.test # <<>>

\* C5: a successful load yields exactly train_size train examples and
\* exactly val_size validation examples, none listed twice, the validation
\* examples all among those the train split left over.
C5_ExactSizes ==
    splits.ok =>
        /\ Len(splits.train) = config.train_size
        /\ Len(splits.val) = config.val_size
        /\ Distinct(splits.train)
        /\ Distinct(splits.val)
        /\ Range(splits.val) \subseteq AllIndices \ Range(splits.train)

\* C5 witnesses: a load with different train and validation sizes succeeded.
C5_Witness ==
    /\ splits.ok
    /\ config.train_size # config.val_size
    /\ Len(splits.train) = config.train_size

\* C6 as claimed: the test split of a successful load comes from what the
\* train and validation splits left over and holds at most test_size
\* examples.
C6_TestCapped ==
    splits.ok =>
        /\ Range(splits.test) \subseteq
               AllIndices \ (Range(splits.train) \cup Range(splits.val))
        /\ Len(splits.test) <= config.test_size

\* C7: a load gives the split every earlier successful load of the same
\* configuration and dataset gave, whatever the process did in between.
C7_SplitDeterministic ==
    \A k \in DOMAIN pastSplits :
        (splits.ok /\ pastSplits[k].ok) => splits = pastSplits[k]

\* C7 witnesses: a second load succeeded after a first one, the
\* process-wide generator having moved in between.
C7_Witness ==
    /\ run = 2
    /\ splits.ok
    /\ pastSplits # <<>>
    /\ pastSplits[1].ok
    /\ globalRng # RandomState(ImportSeed)

\* C8: from the return of build_model to the call of prepare_for_finetuning
\* every backbone layer is untrainable and every head layer is trainable.
C8_BackboneFrozenInPhase1 ==
    pc \in {"compile_pretrain", "get_callbacks_pretrain", "fit_pretrain",
            "prepare_for_finetuning"} =>
        /\ model.built
        /\ Len(model.layers) = nLayers
        /\ \A i \in DOMAIN model.layers : ~model.layers[i]
        /\ TrainableBackbone(config, model) = {}
        /\ \A h \in DOMAIN model.head : model.head[h]

\* C8 witnesses: the phase 1 fit is about to run on a model with
\* preprocessing inside and a backbone of some layers.
C8_Witness ==
    /\ pc = "fit_pretrain"
    /\ config.preprocess_in_model
    /\ config.base_model = "EFFICIENT_NET_V2"
    /\ Len(model.layers) > 0

\* The layers from index cut on (0-based, as in base_model.layers[cut:]).
SuffixFrom(cut, n) == {i \in 1..n : i > cut}

IsSuffix(S, n) == \E cut \in 0..n : S = SuffixFrom(cut, n)

\* The trainable backbone layers the transition yields for a configuration.
FinetunedBackbone(cfg, n) ==
    TrainableBackbone(cfg, PrepareForFinetuning(cfg, BuildModel(cfg, n)))

\* C9 as claimed: after prepare_for_finetuning the trainable backbone layers
\* are a suffix of the layer list, beginning at a cutoff that belongs to
\* the backbone family: the same layers wherever the preprocessing lives.
C9_SuffixAtFamilyCutoff ==
    prepCalls >= 1 =>
        /\ IsSuffix(TrainableBackbone(config, model), nLayers)
        /\ TrainableBackbone(config, model) =
               FinetunedBackbone([config EXCEPT !.preprocess_in_model = ~@], nLayers)

\* C10: every further call of prepare_for_finetuning leaves the flags as
\* the first call left them, and raises nothing.
C10_PrepareIdempotent ==
    prepCalls >= 2 =>
        /\ model = afterFirst
        /\ TrainableBackbone(config, model) = TrainableBackbone(config, afterFirst)
        /\ error = "none"

\* C10 witnesses: a second call on a model whose first call unfroze some
\* backbone layers and left others frozen.
C10_Witness ==
    /\ prepCalls = 2
    /\ TrainableBackbone(config, model) # {}
    /\ TrainableBackbone(config, model) # DOMAIN model.layers

\* The epochs of the last phase that executed: phase 2 exactly when
\* epochs_finetune > 0.
LastPhaseHistory ==
    IF config.epochs_finetune > 0 THEN history_finetune ELSE history_pretrain

\* C11: once the final accuracies are taken, and in the result of a call
\* that returned, the final train and validation accuracy are those of the
\* last epoch that ran in the last phase that executed: phase 1 when
\* epochs_finetune = 0, phase 2 when epochs_finetune > 0.
C11_FinalMetricsOfLastPhase ==
    /\ pc \in {"evaluate", "log_metrics", "log_model", "convert_to_tflite",
                "write_tflite", "log_artifact", "return", "returned"} =>
          /\ LastPhaseHistory # <<>>
          /\ final_accuracy = LastPhaseHistory[Len(LastPhaseHistory)].accuracy
          /\ final_val_accuracy =
                 LastPhaseHistory[Len(LastPhaseHistory)].val_accuracy
    /\ pc = "returned" =>
          /\ result.metrics.final_train_accuracy =
                 LastPhaseHistory[Len(LastPhaseHistory)].accuracy
          /\ result.metrics.final_val_accuracy =
                 LastPhaseHistory[Len(LastPhaseHistory)].val_accuracy
          /\ config.epochs_finetune = 0 => history_finetune = <<>>

\* C11 witnesses: a call returned whose last phase ran several epochs, the
\* last unlike the first, and whose two phases ended on different metrics.
C11_Witness ==
    /\ pc = "returned"
    /\ Len(history_pretrain) >= 1
    /\ Len(history_finetune) >= 2
    /\ history_finetune[1] # history_finetune[Len(history_finetune)]
    /\ history_pretrain[Len(history_pretrain)] # history_finetune[Len(history_finetune)]

\* C11 witnesses, without phase 2: a call with epochs_finetune = 0 returned
\* the metrics of phase 1's last epoch.
C11_WitnessPhase1 ==
    /\ pc = "returned"
    /\ config.epochs_finetune = 0
    /\ Len(history_pretrain) >= 2
    /\ history_pretrain[1] # history_pretrain[Len(history_pretrain)]

\* C12: every optimizer the model is compiled with is a new object of the
\* configured family; for SGD and ADAM its learning rate is initial_lr in
\* the pretrain phase and finetune_lr in the finetune phase, for NADAM it is
\* the phase's constant whatever initial_lr and finetune_lr are.
C12_OptimizerPerPhase ==
    [][optimizer' # optimizer =>
          /\ pc \in {"compile_pretrain", "compile_finetune"}
          /\ optimizer'.id >= nextId
          /\ optimizer'.id # optimizer.id
          /\ \A k \in DOMAIN callbacks : optimizer'.id # callbacks[k].id
          /\ optimizer'.family = config.optimizer
          /\ config.optimizer \in {"SGD", "ADAM"} =>
                optimizer'.learning_rate =
                    IF pc = "compile_pretrain" THEN config.initial_lr
                    ELSE config.finetune_lr
          /\ config.optimizer = "NADAM" =>
                optimizer'.learning_rate =
                    IF pc = "compile_pretrain" THEN 10 ELSE 1]_vars

\* C12 witnesses: phase 2 compiled with an ADAM optimizer at a finetune
\* rate that differs from the pretrain rate.
C12_Witness ==
    /\ pc = "get_callbacks_finetune"
    /\ config.optimizer = "ADAM"
    /\ config.initial_lr # config.finetune_lr
    /\ optimizer.family = "ADAM"
    /\ optimizer.learning_rate = config.finetune_lr

\* C12 witnesses, NADAM: phase 2 compiled with a NADAM optimizer while both
\* configured rates are something else.
C12_WitnessNadam ==
    /\ pc = "get_callbacks_finetune"
    /\ config.optimizer = "NADAM"
    /\ config.initial_lr = 10000
    /\ config.finetune_lr = 10000
    /\ optimizer.learning_rate = 1

\* The last n statements executed.
LastSteps(n) == SubSeq(steps, Len(steps) - n + 1, Len(steps))

\* The smallest val_loss of a history, NoBest if it is empty.
RECURSIVE BestValLoss(_)
BestValLoss(history) ==
    IF history = <<>> THEN NoBest
    ELSE LET rest == BestValLoss(Tail(history))
         IN IF Head(history).val_loss < rest THEN Head(history).val_loss ELSE rest

\* C17: phase 2 runs the fine-tune transition, then the compile with a new
\* optimizer of the configured family at the finetune rate, then the fit,
\* in this order; the early stopping handed to the phase 2 fit is a new
\* object with no epoch waited and no best value, and the fit runs at most
\* epochs_finetune epochs, its best value and its wait being those of
\* phase 2's own epochs.
C17_Phase2FreshEarlyStopping ==
    [][/\ (pc = "get_callbacks_finetune" /\ pc' = "fit_finetune") =>
             /\ LastSteps(3)' = <<"prepare_for_finetuning", "compile_finetune",
                                  "get_callbacks_finetune">>
             /\ optimizer'.family = config.optimizer
             /\ optimizer'.learning_rate =
                    IF config.optimizer = "NADAM" THEN NadamFinetuneLr
                    ELSE config.finetune_lr
             /\ optimizer'.id > callbacks[1].id
             /\ callbacks'[1].id # callbacks[1].id
             /\ callbacks'[1].id > optimizer'.id
             /\ callbacks'[1].patience = config.patience
             /\ callbacks'[1].wait = 0
             /\ callbacks'[1].best = NoBest
       /\ (pc = "fit_finetune" /\ pc' = "final_accuracy_finetune") =>
             /\ LastSteps(4)' = <<"prepare_for_finetuning", "compile_finetune",
                                  "get_callbacks_finetune", "fit_finetune">>
             /\ Len(history_finetune') \in 1..config.epochs_finetune
             /\ callbacks'[1].best = BestValLoss(history_finetune')
             /\ callbacks'[1].wait < Len(history_finetune')
             /\ Len(history_finetune') < config.epochs_finetune =>
                    callbacks'[1].wait >= config.patience]_vars

\* C17 witnesses: phase 1 was stopped early at its best value, and the
\* phase 2 fit ran all its three epochs with patience 1, its first epoch
\* worse than phase 1's best and its second an improvement on its first.
C17_Witness ==
    /\ pc = "final_accuracy_finetune"
    /\ config.patience = 1
    /\ Len(history_pretrain) < config.epochs_pretrain
    /\ BestValLoss(history_pretrain) = 1
    /\ Len(history_finetune) = 3
    /\ history_finetune[1].val_loss = 2
    /\ history_finetune[2].val_loss = 1

\* C18: the fine-tune transition leaves the weights, the optimizer, the
\* callbacks and the histories as they are and changes nothing of the model
\* but trainable flags of the backbone: the model has the same layers and
\* the same head before and after it, no other statement changes a built
\* model, and the three head layers are trainable from build_model to the
\* end of the call.
C18_TransitionChangesOnlyFlags ==
    [][/\ (pc = "prepare_for_finetuning" /\ pc' = "compile_finetune") =>
             /\ weights' = weights
             /\ UNCHANGED <<optimizer, callbacks, history_pretrain,
                            history_finetune>>
             /\ model'.built
             /\ DOMAIN model'.layers = DOMAIN model.layers
             /\ model'.head = model.head
       /\ (model.built /\ model' # model) =>
             /\ pc = "prepare_for_finetuning"
             /\ [model' EXCEPT !.layers = model.layers,
                               !.base_trainable = model.base_trainable] = model
       /\ model'.built =>
             /\ Len(model'.head) = 3
             /\ \A h \in DOMAIN model'.head : model'.head[h]]_vars

\* C18 witnesses: a call returned after two phases, the transition had
\* changed flags of the backbone, phase 1 had trained the weights the
\* transition was given, and phase 2 trained them further.
C18_Witness ==
    /\ pc = "returned"
    /\ prepCalls = 1
    /\ model.layers # [i \in DOMAIN model.layers |-> FALSE]
    /\ history_pretrain # <<>>
    /\ weights.fit = 2
    /\ \A h \in DOMAIN model.head : model.head[h]

\* The names of a dataset's operations, in order of application.
OpNames(ds) == [k \in DOMAIN ds.ops |-> ds.ops[k].op]

\* The positions of an operation among a dataset's operations.
Positions(ds, op) == {k \in DOMAIN ds.ops : ds.ops[k].op = op}

\* The examples of a split as they come: in split order, preprocessed in
\* the pipeline or not, never augmented.
InSplitOrder(idx, preprocessed) ==
    [k \in DOMAIN idx |->
        [index |-> idx[k], preprocessed |-> preprocessed, augmented |-> FALSE]]

\* The operations of a pipeline without shuffling and augmentation.
PlainOps(cfg) ==
    (IF ~cfg.preprocess_in_model THEN <<"map_preprocess">> ELSE <<>>)
    \o <<"cache", "batch", "prefetch">>

\* C19: prepare_data_pipeline makes the validation and the test pipeline of
\* (preprocessing, when preprocess_in_model is false,) cache, batch and
\* prefetch, so that they yield their split's examples in split order and
\* unaugmented whatever the generator's state; the train pipeline shuffles
\* once, after its cache, with a buffer of the train split's size, and maps
\* the augmentation exactly when preprocess_in_model is false, after the
\* cache and the shuffle; no later statement changes a pipeline.
C19_ShuffleAndAugmentTrainOnly ==
    [][/\ (pc = "prepare_data_pipeline" /\ pc' = "build_model") =>
             /\ OpNames(ds_valid') = PlainOps(config)
             /\ OpNames(ds_test') = PlainOps(config)
             /\ ds_valid'.source = splits.val
             /\ ds_test'.source = splits.test
             /\ \A r \in 0..(RngMod - 1) :
                   /\ Elements(ds_valid', r) =
                          InSplitOrder(splits.val, ~config.preprocess_in_model)
                   /\ Elements(ds_test', r) =
                          InSplitOrder(splits.test, ~config.preprocess_in_model)
                   /\ Len(Elements(ds_train', r)) = Len(splits.train)
                   /\ {e.index : e \in Range(Elements(ds_train', r))} = Range(splits.train)
                   /\ \A e \in Range(Elements(ds_train', r)) :
                         e.augmented = ~config.preprocess_in_model
             /\ ds_train'.source = splits.train
             /\ Cardinality(Positions(ds_train', "cache")) = 1
             /\ Cardinality(Positions(ds_train', "shuffle")) = 1
             /\ \A c \in Positions(ds_train', "cache") :
                   \A h \in Positions(ds_train', "shuffle") :
                      /\ c < h
                      /\ ds_train'.ops[h].arg = Len(splits.train)
                      /\ \A a \in Positions(ds_train', "map_augmentation") : h < a
             /\ Cardinality(Positions(ds_train', "map_augmentation")) =
                    IF config.preprocess_in_model THEN 0 ELSE 1
       /\ pc \notin {"load_data", "prepare_data_pipeline"} =>
             UNCHANGED <<ds_train, ds_valid, ds_test>>]_vars

\* C19 witnesses: the pipelines are prepared with preprocessing and
\* augmentation in the pipeline, and under the generator's state the train
\* pipeline yields its split in another order than the split's while the
\* validation pipeline of several examples yields its split's order.
C19_Witness ==
    /\ pc = "build_model"
    /\ ~config.preprocess_in_model
    /\ Len(splits.val) >= 2
    /\ "map_augmentation" \in Range(OpNames(ds_train))
    /\ [k \in DOMAIN splits.train |-> Elements(ds_train, globalRng)[k].index]
           # splits.train
    /\ Elements(ds_valid, globalRng) = InSplitOrder(splits.val, TRUE)

\* C19 witnesses, preprocessing in the model: the pipelines are prepared
\* and none of them maps preprocessing or augmentation.
C19_WitnessInModel ==
    /\ pc = "build_model"
    /\ config.preprocess_in_model
    /\ OpNames(ds_train) = <<"cache", "shuffle", "batch", "prefetch">>
    /\ OpNames(ds_valid) = <<"cache", "batch", "prefetch">>

\* The data errors of the error taxonomy.
DataErrors == {"DataUnavailableError", "InsufficientDataError"}

\* C20: whatever the dataset source, once load_data has run on a dataset
\* and sizes that the TENSORFLOW source splits, it has returned its three
\* splits or raised one of the taxonomy's data errors.
C20_EverySourceLoadsOrDataError ==
    (/\ "load_data" \in Range(steps)
     /\ LoadData([config EXCEPT !.dataset_source = "TENSORFLOW"], labels, globalRng).ok
     /\ error # "Exception")
        => \/ splits.ok
           \/ splits.error \in DataErrors

\* What the sink receives when a run ends, and the metric calls.
EndCalls == {"end_run_FINISHED", "end_run_FAILED"}
MetricCalls == {"log_metrics", "log_metric"}

\* The positions of the sink's calls that are among the given ones.
SinkPositions(calls) == {k \in DOMAIN sink : sink[k] \in calls}

\* C21: a tracking run that was begun is open while train_model executes
\* and is ended exactly once, as its last call, when train_model is left:
\* as finished when it returns, as failed when a statement raises.  Within
\* the run the parameters precede every metric, the final metrics are those
\* of an evaluation that has taken place, and the compact artifact is
\* logged after the conversion has produced it and it has been written.
C21_RunEndedOnEveryPath ==
    /\ sink # <<>> =>
          /\ sink[1] = "start_run"
          /\ SinkPositions({"start_run"}) = {1}
          /\ pc \notin Terminal => SinkPositions(EndCalls) = {}
          /\ pc \in Terminal => SinkPositions(EndCalls) = {Len(sink)}
          /\ pc = "returned" => sink[Len(sink)] = "end_run_FINISHED"
          /\ pc = "raised" => sink[Len(sink)] = "end_run_FAILED"
    /\ (sink = <<>> /\ pc \in Terminal) =>
          /\ pc = "raised"
          /\ steps = <<"start_run">>
    /\ \A m \in SinkPositions(MetricCalls) :
          \E q \in SinkPositions({"log_params", "log_param"}) : q < m
    /\ \A q \in SinkPositions({"log_params", "log_param"}) :
          \A m \in SinkPositions(MetricCalls) : q < m
    /\ SinkPositions({"log_metrics"}) # {} =>
          /\ evaluation \in Evaluations
          /\ final_metrics.test_accuracy = evaluation.test_accuracy
          /\ final_metrics.test_loss = evaluation.test_loss
    /\ SinkPositions({"log_artifact"}) # {} =>
          /\ tflite_model \in TfliteLengths
          /\ [path |-> TflitePath, call |-> call] \in files
          /\ \A a \in SinkPositions({"log_artifact"}) :
                \A m \in SinkPositions({"log_metrics", "log_model"}) : m < a

\* C21 witnesses: a statement raised after the final metrics were logged
\* and before the compact artifact was, and the run was ended as failed.
C21_Witness ==
    /\ pc = "raised"
    /\ SinkPositions({"log_metrics"}) # {}
    /\ SinkPositions({"log_artifact"}) = {}
    /\ sink[Len(sink)] = "end_run_FAILED"

\* C21 witnesses, the call that returns: parameters, final metrics, the
\* compact artifact and the end of the run as finished, in this order.
C21_WitnessReturned ==
    /\ pc = "returned"
    /\ sink = <<"start_run", "log_params", "log_param", "log_metrics",
                "log_model", "log_artifact", "log_metric", "end_run_FINISHED">>

\* Every path a call has written to, in the local filesystem or in the
\* artifact store of its tracking run.
WrittenBy(c) ==
    {<<"local", 0, f.path>> : f \in {g \in files : g.call = c}}
    \cup {<<"run", a.run, a.path>> : a \in {b \in artifacts : b.run = c}}

\* The output location specific to a call: the artifact directory of its
\* tracking run.
InRunLocation(p, c) == p \in {<<"run", c, q>> : q \in {ModelArtifactPath, TfliteArtifactPath}}

\* C13 as claimed: a call that returned has written exactly two files, both
\* inside a location specific to that call, and no call writes to a path
\* that holds a file of an earlier call.
C13_TwoFilesPerRun ==
    [][/\ pc' = "returned" =>
             /\ Cardinality(WrittenBy(call)') = 2
             /\ \A p \in WrittenBy(call)' : InRunLocation(p, call)
       /\ \A f \in files' \ files : \A g \in files : g.path # f.path]_vars

\* C14 as claimed: the result of a call that returned has status success,
\* the four metrics as computed, the size of the converted model, and under
\* training_config every field of the call's configuration with its value.
C14_ResultEchoesConfig ==
    pc = "returned" =>
        /\ result.status = "success"
        /\ result.metrics.final_train_accuracy = final_accuracy
        /\ result.metrics.final_val_accuracy = final_val_accuracy
        /\ result.metrics.test_accuracy = evaluation.test_accuracy
        /\ result.metrics.test_loss = evaluation.test_loss
        /\ result.tflite_size_mb * Mebibyte = tflite_model
        /\ \A field \in DOMAIN config :
              /\ field \in DOMAIN result.training_config
              /\ result.training_config[field] = config[field]

\* C15: the /train handler ends every request with one response, either
\* the success payload, after every statement of the try block ran and none
\* raised, or the error envelope with status "error", the message, the
\* traceback and HTTP 500 after a statement raised; no exception leaves the
\* handler.
C15_TrainHandlerEnvelope ==
    /\ pc # "escaped"
    /\ pc # "responded" => response = NoResponse
    /\ pc = "responded" =>
          \/ /\ response.status = "success"
             /\ response.code = 200
             /\ error = "none"
             /\ steps = ApiStatements
          \/ /\ response.status = "error"
             /\ response.code = 500
             /\ error # "none"
             /\ response.error = error
             /\ response.traceback # <<>>
    /\ error # "none" => pc = "responded" /\ response.status = "error"

\* C15 witnesses: a request for no epoch was answered with the error
\* envelope of the KeyError its final-metrics lookup raised.
C15_Witness ==
    /\ pc = "responded"
    /\ request.has_epochs
    /\ request.epochs = 0
    /\ error = "KeyError"
    /\ response.status = "error"
    /\ response.code = 500

\* |a/n - c/N| <= 0.05, in whole numbers.
RatioClose(a, n, c, N) ==
    /\ 20 * (a * N - c * n) <= n * N
    /\ 20 * (c * n - a * N) <= n * N

SplitTotal(counts) == counts[0] + counts[1] + counts[2]

\* The per-class ratios of a split are within 0.05 of the dataset's.
RatiosClose(counts) ==
    \A c \in Classes :
        RatioClose(counts[c], SplitTotal(counts), Counter(labels)[c], Len(labels))

\* C16 as claimed: whenever a dataset with at least 100 examples of every
\* class is split, the per-class ratios of the train, the validation and
\* the test split are each within 0.05 of the dataset's.
C16_RatiosWithinTolerance ==
    (label_counts.ok /\ \A c \in Classes : Counter(labels)[c] >= 100) =>
        /\ RatiosClose(label_counts.train)
        /\ RatiosClose(label_counts.val)
        /\ RatiosClose(label_counts.test)

\* C16 as amended: the same for the splits large enough for the rounding of
\* the stratified split to stay within the tolerance: a train split of at
\* least 20 examples, a validation and a test split of at least 40.
C16_RatiosOfLargeSplits ==
    (label_counts.ok /\ \A c \in Classes : Counter(labels)[c] >= 100) =>
        /\ SplitTotal(label_counts.train) >= 20 => RatiosClose(label_counts.train)
        /\ SplitTotal(label_counts.val) >= 40 => RatiosClose(label_counts.val)
        /\ SplitTotal(label_counts.test) >= 40 => RatiosClose(label_counts.test)

\* C16 witnesses: a dataset of unequal classes split into a train split of
\* 20, a validation split of 40 and a test split of at least 40.
C16_Witness ==
    /\ label_counts.ok
    /\ Counter(labels)[0] # Counter(labels)[1]
    /\ SplitTotal(label_counts.train) = 20
    /\ SplitTotal(label_counts.val) = 40
    /\ SplitTotal(label_counts.test) >= 40

\* The label counts followed alone are those of the index lists load_data
\* returns.
CountsAgree ==
    splits.ok =>
        /\ label_counts = CountSplits(labels, splits)
        /\ label_counts = LoadCounts(config, Counter(labels), globalRng)

====
